---------------------------- MODULE Spec2Model ----------------------------
(***************************************************************************)
(* Interview analyzer: the analysis functions of analysis.py and the       *)
(* pipeline of app_interview.py that composes them.                        *)
(*                                                                         *)
(* Numbers are fixed point, so that every comparison of the code is exact: *)
(*   wpm            tenths of a word per minute   (140.0 wpm  is 1400)     *)
(*   compound       hundredths                    (-0.2       is -20)      *)
(*   overall score  tenths of a point             (70.0       is 700)      *)
(* Text is a sequence of one-character strings.                            *)
(***************************************************************************)
EXTENDS Integers, Sequences, FiniteSets, TLC

VARIABLES
    pc,              \* the statement of app_interview.py about to run
    manual_text,     \* the pasted text (app_interview.py:34)
    uploaded,        \* whether an audio file was uploaded (app_interview.py:36)
    transcript,      \* app_interview.py:51 / :79
    duration,        \* <<seconds>>, or None (app_interview.py:52 / :80)
    segments,        \* the segments' texts (app_interview.py:53 / :81)
    user_keywords,   \* app_interview.py:121
    round_type,      \* app_interview.py:28
    max_points,      \* extract_key_points' second argument
    total_words,     \* app_interview.py:93
    wpm,             \* app_interview.py:94
    filler,          \* app_interview.py:95
    compound,        \* sentiment["compound"], app_interview.py:96
    kwcov,           \* app_interview.py:122
    overall,         \* app_interview.py:127
    summary,         \* app_interview.py:135
    suggestions,     \* app_interview.py:139
    conf_score,      \* app_interview.py:143
    tone,            \* app_interview.py:145
    key_points       \* app_interview.py:149

vars == <<pc, manual_text, uploaded, transcript, duration, segments,
          user_keywords, round_type, max_points, total_words, wpm, filler,
          compound, kwcov, overall, summary, suggestions, conf_score, tone,
          key_points>>

\* An optional number is <<>> (None) or <<n>>.
None == <<>>

-----------------------------------------------------------------------------
(* Python builtins used by the code *)

min(a, b) == IF a <= b THEN a ELSE b

max(a, b) == IF a >= b THEN a ELSE b

abs(a) == IF a >= 0 THEN a ELSE -a

\* A variant: floor division (Python's //) in place of int().
int_div_floor(n, d) == n \div d

\* int(n / d) for d > 0: Python's int() drops the fraction, toward zero.
int_div(n, d) == IF n >= 0 THEN n \div d ELSE -((-n) \div d)

\* round(x, 1) of a value held in hundredths, result in tenths (ties to even).
round1(x100) ==
    LET q == x100 \div 10
        r == x100 % 10
    IN  IF r > 5 \/ (r = 5 /\ q % 2 = 1) THEN q + 1 ELSE q

-----------------------------------------------------------------------------
(* analysis.py: the scoring functions *)

\* A variant: the ideal band without its end points.
wpm_score_open_band(w) ==
    IF w <= 0 THEN 0
    ELSE IF 1200 < w /\ w < 1600 THEN 2000
    ELSE LET d == min(abs(w - 1400), 1000)
         IN  max(0, 2000 - 2 * d)

\* The pace term of compute_overall_score, in hundredths of a point.
wpm_score(w) ==
    IF w <= 0 THEN 0
    ELSE IF 1200 <= w /\ w <= 1600 THEN 2000
    ELSE LET d == min(abs(w - 1400), 1000)
         IN  max(0, 2000 - 2 * d)

filler_penalty(filler_total) == min(20, filler_total * 2)

\* In hundredths of a point: compound * 10 points is 10 * c hundredths.
sentiment_bonus(c) == max(-1000, min(1000, 10 * c))

compute_overall_score(w, filler_total, c) ==
    LET score == 5000 + wpm_score(w) - 100 * filler_penalty(filler_total)
                      + sentiment_bonus(c)
    IN  round1(max(0, min(10000, score)))

\* A variant: without the defensive min and max.
confidence_score_unclamped(filler_total, c, w) ==
    LET s1 == 60 - filler_total
        s2 == s1 + int_div(c * 20, 100)
    IN  IF w < 1100 \/ w > 1800 THEN s2 - 8 ELSE s2 + 5

confidence_score(filler_total, c, w) ==
    LET s1 == 60 - min(20, filler_total)
        s2 == s1 + int_div(c * 20, 100)
        s3 == IF w < 1100 \/ w > 1800 THEN s2 - 8 ELSE s2 + 5
    IN  max(0, min(100, s3))

\* A variant: the filler rule ahead of the negative-sentiment rule.
tone_label_uncertain_first(c, filler_total) ==
    IF c > 40 /\ filler_total < 10 THEN "Confident"
    ELSE IF filler_total > 25 THEN "Uncertain"
    ELSE IF c < -20 /\ filler_total > 10 THEN "Nervous"
    ELSE "Neutral"

tone_label(c, filler_total) ==
    IF c > 40 /\ filler_total < 10 THEN "Confident"
    ELSE IF c < -20 /\ filler_total > 10 THEN "Nervous"
    ELSE IF filler_total > 25 THEN "Uncertain"
    ELSE "Neutral"

lower_round(rt) ==
    CASE rt = "General" -> "general"
      [] rt = "Technical" -> "technical"
      [] rt = "Managerial" -> "managerial"
      [] rt = "HR" -> "hr"
      [] rt = "Group Discussion" -> "group discussion"
      [] OTHER -> rt

\* A variant: a pace of 0 (no duration, no words) is not called slow.
generate_summary_zero_pace(w, c, filler_total, rt) ==
    [ round_type |-> rt,
      mood |-> IF c > 20 THEN "positive"
               ELSE IF c > -20 THEN "neutral" ELSE "negative",
      pace_desc |-> IF w > 1600 THEN "fast-paced"
                    ELSE IF 0 < w /\ w < 1100 THEN "slow-paced"
                    ELSE "well-paced",
      filler_desc |-> IF filler_total > 20 THEN "high filler usage"
                      ELSE IF filler_total > 5 THEN "moderate filler usage"
                      ELSE "minimal filler usage",
      role_hint |-> IF lower_round(rt) \in {"technical", "tech"}
                        THEN "technical examples"
                    ELSE IF lower_round(rt) \in {"hr", "behavioral"}
                        THEN "structured storytelling"
                    ELSE IF lower_round(rt) \in {"managerial"}
                        THEN "leadership decisions"
                    ELSE "" ]

\* The summary is a template; the model keeps the values of its slots.
generate_summary(w, c, filler_total, rt) ==
    [ round_type |-> rt,
      mood |-> IF c > 20 THEN "positive"
               ELSE IF c > -20 THEN "neutral" ELSE "negative",
      pace_desc |-> IF w > 1600 THEN "fast-paced"
                    ELSE IF w < 1100 THEN "slow-paced" ELSE "well-paced",
      filler_desc |-> IF filler_total > 20 THEN "high filler usage"
                      ELSE IF filler_total > 5 THEN "moderate filler usage"
                      ELSE "minimal filler usage",
      role_hint |-> IF lower_round(rt) \in {"technical", "tech"}
                        THEN "technical examples"
                    ELSE IF lower_round(rt) \in {"hr", "behavioral"}
                        THEN "structured storytelling"
                    ELSE IF lower_round(rt) \in {"managerial"}
                        THEN "leadership decisions"
                    ELSE "" ]

SlowDown == "Reduce speaking speed to improve clarity and allow listeners to follow."
SpeakFaster == "Try to speak slightly faster and add more energy to your delivery."
RemoveFillers == "Work on removing filler words such as 'um', 'uh', and 'like' - practice pauses instead."
MindFillers == "Be mindful of filler words; aim to reduce them with focused practice."
MorePositive == "Aim for a more positive and confident tone when responding."
KeepTone == "Your tone is positive - maintain this while balancing clarity."
Generic == "Good communication. Small refinements (pauses, clarity) may help make it stronger."

\* A variant: a pace of 0 draws no advice.
pace_suggestion_zero_pace(w) ==
    IF w > 1600 THEN <<SlowDown>>
    ELSE IF 0 < w /\ w < 1100 THEN <<SpeakFaster>> ELSE <<>>

pace_suggestion(w) ==
    IF w > 1600 THEN <<SlowDown>>
    ELSE IF w < 1100 THEN <<SpeakFaster>> ELSE <<>>

\* A variant: two ifs in place of if / elif.
filler_suggestion_both(filler_total) ==
    (IF filler_total > 15 THEN <<RemoveFillers>> ELSE <<>>)
        \o (IF filler_total > 5 THEN <<MindFillers>> ELSE <<>>)

filler_suggestion(filler_total) ==
    IF filler_total > 15 THEN <<RemoveFillers>>
    ELSE IF filler_total > 5 THEN <<MindFillers>> ELSE <<>>

sentiment_suggestion(c) ==
    IF c < -20 THEN <<MorePositive>>
    ELSE IF c > 50 THEN <<KeepTone>> ELSE <<>>

improvement_suggestions(w, filler_total, c) ==
    LET s == pace_suggestion(w) \o filler_suggestion(filler_total)
                                \o sentiment_suggestion(c)
    IN  IF s = <<>> THEN <<Generic>> ELSE s

-----------------------------------------------------------------------------
(* Python str methods, on sequences of one-character strings *)

Upper == <<"A","B","C","D","E","F","G","H","I","J","K","L","M",
           "N","O","P","Q","R","S","T","U","V","W","X","Y","Z">>

Lower == <<"a","b","c","d","e","f","g","h","i","j","k","l","m",
           "n","o","p","q","r","s","t","u","v","w","x","y","z">>

Digits == {"0","1","2","3","4","5","6","7","8","9"}

Whitespace == {" ", "\t", "\n"}

lower_char(ch) ==
    IF \E i \in DOMAIN Upper : Upper[i] = ch
    THEN Lower[CHOOSE i \in DOMAIN Upper : Upper[i] = ch]
    ELSE ch

\* str.lower()
lower(s) == [i \in 1..Len(s) |-> lower_char(s[i])]

\* str.strip()
strip(s) ==
    LET keep == {i \in 1..Len(s) : s[i] \notin Whitespace}
    IN  IF keep = {} THEN <<>>
        ELSE SubSeq(s, CHOOSE i \in keep : \A j \in keep : i <= j,
                       CHOOSE i \in keep : \A j \in keep : i >= j)

\* sub in s
contains(s, sub) ==
    \E i \in 1..(Len(s) - Len(sub) + 1) : SubSeq(s, i, i + Len(sub) - 1) = sub

\* str.count(sub) for a non-empty sub: scans left to right and, after a
\* match, resumes behind it.
RECURSIVE count_from(_, _, _)
count_from(s, sub, i) ==
    IF i + Len(sub) - 1 > Len(s) THEN 0
    ELSE IF SubSeq(s, i, i + Len(sub) - 1) = sub
         THEN 1 + count_from(s, sub, i + Len(sub))
         ELSE count_from(s, sub, i + 1)

\* A variant: every position where sub starts, overlapping or not.
count_overlapping(s, sub) ==
    Cardinality({i \in 1..(Len(s) - Len(sub) + 1) :
                     SubSeq(s, i, i + Len(sub) - 1) = sub})

count(s, sub) == count_from(s, sub, 1)

\* The maximal runs of the characters ch with (ch \in S) = member, left to
\* right: what re.findall(r"\w+", s) and str.split() return.
RECURSIVE runs_from(_, _, _, _, _)
runs_from(s, S, member, i, cur) ==
    IF i > Len(s) THEN (IF cur = <<>> THEN <<>> ELSE <<cur>>)
    ELSE IF (s[i] \in S) = member
         THEN runs_from(s, S, member, i + 1, Append(cur, s[i]))
    ELSE (IF cur = <<>> THEN <<>> ELSE <<cur>>)
             \o runs_from(s, S, member, i + 1, <<>>)

\* The characters \w matches.
WordChars ==
    {Upper[i] : i \in DOMAIN Upper} \cup {Lower[i] : i \in DOMAIN Lower}
        \cup Digits \cup {"_"}

\* str.split()
split(s) == runs_from(s, Whitespace, FALSE, 1, <<>>)

-----------------------------------------------------------------------------
(* analysis.py: the text functions *)

\* The token list of count_words; the count is its length.
count_words(text) == runs_from(text, WordChars, TRUE, 1, <<>>)

\* The result is in tenths of a word per minute; the duration is in seconds,
\* or None. The durations of the model divide 600, so the quotient is exact.
words_per_minute(words, duration_seconds) ==
    IF duration_seconds = None THEN 0
    ELSE IF duration_seconds[1] = 0 THEN 0
    ELSE IF duration_seconds[1] <= 0 THEN 0
    ELSE (words * 600) \div duration_seconds[1]

FILLER_WORDS ==
    { <<"u","m">>, <<"u","h">>, <<"l","i","k","e">>,
      <<"y","o","u"," ","k","n","o","w">>, <<"i"," ","m","e","a","n">>,
      <<"s","o">>, <<"a","c","t","u","a","l","l","y">>,
      <<"b","a","s","i","c","a","l","l","y">>, <<"r","i","g","h","t">>,
      <<"w","e","l","l">>, <<"h","m","m">>, <<"h","u","h">>,
      <<"e","r","m">> }

\* The loop of filler_stats over the fillers not yet visited: total
\* accumulates the counts that are > 0.
RECURSIVE filler_total_loop(_, _)
filler_total_loop(lo, todo) ==
    IF todo = {} THEN 0
    ELSE LET f == CHOOSE x \in todo : TRUE
             c == count(lo, f)
         IN  (IF c > 0 THEN c ELSE 0) + filler_total_loop(lo, todo \ {f})

filler_stats(text) ==
    LET lo == lower(text)
    IN  [ total |-> filler_total_loop(lo, FILLER_WORDS),
          by_word |-> [f \in {g \in FILLER_WORDS : count(lo, g) > 0}
                          |-> count(lo, f)] ]

\* A variant: the keyword is not trimmed.
keyword_found_untrimmed(k, lo) == contains(lo, lower(k))

keyword_found(k, lo) == contains(lo, lower(strip(k)))

keyword_coverage(keywords, text) ==
    LET lo == lower(text)
        hit(k) == keyword_found(k, lo)
        miss(k) == ~keyword_found(k, lo)
    IN  [ found |-> SelectSeq(keywords, hit),
          missing |-> SelectSeq(keywords, miss) ]

Punctuation == {".", "!", "?"}

\* re.split(r'(?<=[.!?])\s+', t): a boundary is a maximal whitespace run
\* whose first character follows one of . ! ?
RECURSIVE split_sentences_from(_, _, _)
split_sentences_from(t, start, i) ==
    IF i > Len(t) THEN <<SubSeq(t, start, Len(t))>>
    ELSE IF t[i] \in Whitespace /\ i > 1 /\ t[i - 1] \in Punctuation
    THEN LET after == {j \in i..Len(t) : t[j] \notin Whitespace}
             next == IF after = {} THEN Len(t) + 1
                     ELSE CHOOSE j \in after : \A k \in after : j <= k
         IN  <<SubSeq(t, start, i - 1)>> \o split_sentences_from(t, next, next)
    ELSE split_sentences_from(t, start, i + 1)

split_sentences(t) == split_sentences_from(t, 1, 1)

KEY_WORDS ==
    << <<"p","r","o","j","e","c","t">>, <<"d","e","s","i","g","n","e","d">>,
       <<"i","m","p","l","e","m","e","n","t","e","d">>, <<"l","e","d">>,
       <<"i","m","p","r","o","v","e","d">>, <<"r","e","d","u","c","e","d">>,
       <<"i","n","c","r","e","a","s","e","d">>, <<"r","e","s","u","l","t">>,
       <<"a","c","h","i","e","v","e">> >>

\* One sentence's score: its word count, and 5 for each keyword in it.
sentence_score(s_clean) ==
    Len(split(s_clean))
    + 5 * Cardinality({i \in DOMAIN KEY_WORDS :
                           contains(lower(s_clean), KEY_WORDS[i])})

RECURSIVE score_sentences(_)
score_sentences(sentences) ==
    IF sentences = <<>> THEN <<>>
    ELSE LET s_clean == strip(Head(sentences))
         IN  (IF s_clean = <<>> THEN <<>>
              ELSE <<[score |-> sentence_score(s_clean), text |-> s_clean]>>)
             \o score_sentences(Tail(sentences))

\* A variant: ascending (reverse=True forgotten), stable.
RECURSIVE sort_by_score_ascending(_)
sort_by_score_ascending(scored) ==
    IF scored = <<>> THEN <<>>
    ELSE LET n == Len(scored)
             x == scored[n]
             done == sort_by_score_ascending(SubSeq(scored, 1, n - 1))
             ahead == Cardinality({i \in DOMAIN done : done[i].score <= x.score})
         IN  SubSeq(done, 1, ahead) \o <<x>> \o SubSeq(done, ahead + 1, Len(done))

\* list.sort(reverse=True, key=score): descending and stable.
RECURSIVE sort_by_score(_)
sort_by_score(scored) ==
    IF scored = <<>> THEN <<>>
    ELSE LET n == Len(scored)
             x == scored[n]
             done == sort_by_score(SubSeq(scored, 1, n - 1))
             ahead == Cardinality({i \in DOMAIN done : done[i].score >= x.score})
         IN  SubSeq(done, 1, ahead) \o <<x>> \o SubSeq(done, ahead + 1, Len(done))

\* seq[:n]
slice_to(seq, n) ==
    IF n >= 0 THEN SubSeq(seq, 1, min(n, Len(seq)))
    ELSE SubSeq(seq, 1, max(0, Len(seq) + n))

extract_key_points(text, points) ==
    IF text = <<>> \/ strip(text) = <<>> THEN <<>>
    ELSE LET scored == sort_by_score(score_sentences(split_sentences(strip(text))))
             top == slice_to(scored, points)
         IN  [i \in 1..Len(top) |-> top[i].text]

-----------------------------------------------------------------------------
(* Inputs *)

MaxSegments == 2
MaxDuration == 2
MaxTextLen == 3
MaxKeywords == 2
MaxFillerLen == 5
MaxPieces == 6
MaxPoints == 2
MaxFiller == 27
BigFiller == 1000
WpmReach == 3000
WpmStep == 100
WpmNear == 1

\* All sequences over S of length at most n.
SeqsUpTo(S, n) == UNION {[1..k -> S] : k \in 0..n}

RECURSIVE flatten(_)
flatten(pieces) ==
    IF pieces = <<>> THEN <<>> ELSE Head(pieces) \o flatten(Tail(pieces))

RoundTypes == {"General", "Technical", "Managerial", "HR", "Group Discussion"}

ManualTexts ==
    { <<>>, <<" ">>, <<"u","m">>, <<" ","u"," ","m"," ">>, <<"u">>,
      <<"S","o"," ","u","m",".">> }

SegmentTexts ==
    { <<>>, <<"u","m">>, <<" ","u"," ","m">>, <<"s","o",".">> }

SegmentLists == SeqsUpTo(SegmentTexts, MaxSegments)

\* Seconds of audio; those that divide 600 keep wpm exact in tenths.
AudioDurations == {0} \cup {d \in 1..MaxDuration : 600 % d = 0}

AppCompounds == {-100, -21, -20, 0, 50, 51, 100}

\* The keyword box, split at commas, trimmed, blanks dropped.
AppKeywordLists == { <<>>, << <<"u","m">>, <<"S","o">> >> }

WpmThresholds == {0, 400, 1100, 1200, 1400, 1600, 1800, 2400}

WpmSet ==
    {w \in (-WpmReach)..WpmReach :
        \/ w % WpmStep = 0
        \/ \E t \in WpmThresholds : abs(w - t) <= WpmNear}

FillerThresholds == {5, 10, 15, 20, 25}

FillerSet ==
    {0, 1, MaxFiller, BigFiller}
        \cup {f \in 0..MaxFiller : \E t \in FillerThresholds : abs(f - t) <= 1}

\* Every compound of [-1, 1] in hundredths.
CompoundSet == -100..100

FillerAlphabet == {"u", "m", "h", "U", " "}

UmUmUh == <<"u","m"," ","u","m"," ","u","h">>

FillerTexts == SeqsUpTo(FillerAlphabet, MaxFillerLen) \cup {UmUmUh}

KeywordAlphabet == {"a", "A", " "}

KeywordChoices ==
    { <<>>, <<"a">>, <<"A">>, <<" ","a"," ">>, <<"a","a">>, <<"b">> }

KeywordLists == SeqsUpTo(KeywordChoices, MaxKeywords)

KeywordTexts == SeqsUpTo(KeywordAlphabet, MaxTextLen)

Pieces == { <<"L","e","d">>, <<"x">>, <<" ">>, <<".", " ">> }

KeyPointTexts == {flatten(ps) : ps \in SeqsUpTo(Pieces, MaxPieces)}

-----------------------------------------------------------------------------
(* transcribe.py *)

\* " ".join(parts)
RECURSIVE join(_)
join(parts) ==
    IF parts = <<>> THEN <<>>
    ELSE IF Len(parts) = 1 THEN parts[1]
    ELSE parts[1] \o <<" ">> \o join(Tail(parts))

\* What transcribe_file returns for the segments the recogniser yields and
\* the length of the audio: each segment's text is stripped, the transcript
\* is the segments joined by one space.
transcribe_file(raw_segments, audio_duration) ==
    LET texts == [i \in 1..Len(raw_segments) |-> strip(raw_segments[i])]
    IN  [ segments |-> texts,
          text |-> strip(join(texts)),
          duration |-> <<audio_duration>> ]

-----------------------------------------------------------------------------
(* app_interview.py: one action per statement of the script *)

\* Neither an upload nor a pasted text: the script stops.
Prompt ==
    /\ pc = "start"
    /\ ~uploaded /\ strip(manual_text) = <<>>
    /\ pc' = "stopped"
    /\ UNCHANGED <<manual_text, uploaded, transcript, duration, segments,
                   user_keywords, round_type, max_points, total_words, wpm,
                   filler, compound, kwcov, overall, summary, suggestions,
                   conf_score, tone, key_points>>

\* A pasted transcript wins over an upload and skips the transcription.
UsePasted ==
    /\ pc = "start"
    /\ strip(manual_text) # <<>>
    /\ transcript' = strip(manual_text)
    /\ duration' = None
    /\ segments' = <<>>
    /\ pc' = "count_words"
    /\ UNCHANGED <<manual_text, uploaded, user_keywords, round_type,
                   max_points, total_words, wpm, filler, compound, kwcov,
                   overall, summary, suggestions, conf_score, tone,
                   key_points>>

\* The uploaded audio is transcribed; what the recogniser hears is an input.
Transcribe ==
    /\ pc = "start"
    /\ uploaded /\ strip(manual_text) = <<>>
    /\ \E raw \in SegmentLists, d \in AudioDurations :
          LET result == transcribe_file(raw, d)
          IN  /\ transcript' = result.text
              /\ duration' = result.duration
              /\ segments' = result.segments
    /\ pc' = "count_words"
    /\ UNCHANGED <<manual_text, uploaded, user_keywords, round_type,
                   max_points, total_words, wpm, filler, compound, kwcov,
                   overall, summary, suggestions, conf_score, tone,
                   key_points>>

\* duration or 0.0
duration_or_zero(d) == IF d = None THEN <<0>> ELSE IF d[1] = 0 THEN <<0>> ELSE d

CountWords ==
    /\ pc = "count_words"
    /\ total_words' = Len(count_words(transcript))
    /\ wpm' = words_per_minute(total_words', duration_or_zero(duration))
    /\ pc' = "filler"
    /\ UNCHANGED <<manual_text, uploaded, transcript, duration, segments,
                   user_keywords, round_type, max_points, filler, compound,
                   kwcov, overall, summary, suggestions, conf_score, tone,
                   key_points>>

FillerStats ==
    /\ pc = "filler"
    /\ filler' = filler_stats(transcript)
    /\ pc' = "sentiment"
    /\ UNCHANGED <<manual_text, uploaded, transcript, duration, segments,
                   user_keywords, round_type, max_points, total_words, wpm,
                   compound, kwcov, overall, summary, suggestions, conf_score,
                   tone, key_points>>

\* The polarity scorer is external: any compound in [-1, 1].
Sentiment ==
    /\ pc = "sentiment"
    /\ compound' \in AppCompounds
    /\ pc' = "keywords"
    /\ UNCHANGED <<manual_text, uploaded, transcript, duration, segments,
                   user_keywords, round_type, max_points, total_words, wpm,
                   filler, kwcov, overall, summary, suggestions, conf_score,
                   tone, key_points>>

KeywordCoverage ==
    /\ pc = "keywords"
    /\ kwcov' = keyword_coverage(user_keywords, transcript)
    /\ pc' = "overall"
    /\ UNCHANGED <<manual_text, uploaded, transcript, duration, segments,
                   user_keywords, round_type, max_points, total_words, wpm,
                   filler, compound, overall, summary, suggestions,
                   conf_score, tone, key_points>>

OverallScore ==
    /\ pc = "overall"
    /\ overall' = compute_overall_score(wpm, filler.total, compound)
    /\ pc' = "summary"
    /\ UNCHANGED <<manual_text, uploaded, transcript, duration, segments,
                   user_keywords, round_type, max_points, total_words, wpm,
                   filler, compound, kwcov, summary, suggestions, conf_score,
                   tone, key_points>>

Summary ==
    /\ pc = "summary"
    /\ summary' = generate_summary(wpm, compound, filler.total, round_type)
    /\ pc' = "suggestions"
    /\ UNCHANGED <<manual_text, uploaded, transcript, duration, segments,
                   user_keywords, round_type, max_points, total_words, wpm,
                   filler, compound, kwcov, overall, suggestions, conf_score,
                   tone, key_points>>

Suggestions ==
    /\ pc = "suggestions"
    /\ suggestions' = improvement_suggestions(wpm, filler.total, compound)
    /\ pc' = "confidence"
    /\ UNCHANGED <<manual_text, uploaded, transcript, duration, segments,
                   user_keywords, round_type, max_points, total_words, wpm,
                   filler, compound, kwcov, overall, summary, conf_score,
                   tone, key_points>>

Confidence ==
    /\ pc = "confidence"
    /\ conf_score' = confidence_score(filler.total, compound, wpm)
    /\ pc' = "tone"
    /\ UNCHANGED <<manual_text, uploaded, transcript, duration, segments,
                   user_keywords, round_type, max_points, total_words, wpm,
                   filler, compound, kwcov, overall, summary, suggestions,
                   tone, key_points>>

Tone ==
    /\ pc = "tone"
    /\ tone' = tone_label(compound, filler.total)
    /\ pc' = "key_points"
    /\ UNCHANGED <<manual_text, uploaded, transcript, duration, segments,
                   user_keywords, round_type, max_points, total_words, wpm,
                   filler, compound, kwcov, overall, summary, suggestions,
                   conf_score, key_points>>

KeyPoints ==
    /\ pc = "key_points"
    /\ key_points' = extract_key_points(transcript, max_points)
    /\ pc' = "report"
    /\ UNCHANGED <<manual_text, uploaded, transcript, duration, segments,
                   user_keywords, round_type, max_points, total_words, wpm,
                   filler, compound, kwcov, overall, summary, suggestions,
                   conf_score, tone>>

\* The report calls tone_label and improvement_suggestions once more.
Report ==
    /\ pc = "report"
    /\ tone' = tone_label(compound, filler.total)
    /\ suggestions' = improvement_suggestions(wpm, filler.total, compound)
    /\ pc' = "done"
    /\ UNCHANGED <<manual_text, uploaded, transcript, duration, segments,
                   user_keywords, round_type, max_points, total_words, wpm,
                   filler, compound, kwcov, overall, summary, conf_score,
                   key_points>>

-----------------------------------------------------------------------------
(* Specifications *)

NoFiller == [total |-> 0, by_word |-> <<>>]
NoCoverage == [found |-> <<>>, missing |-> <<>>]
NoSummary == [round_type |-> "", mood |-> "", pace_desc |-> "",
              filler_desc |-> "", role_hint |-> ""]

\* Nothing computed yet.
Blank ==
    /\ total_words = 0
    /\ wpm = 0
    /\ filler = NoFiller
    /\ compound = 0
    /\ kwcov = NoCoverage
    /\ overall = 0
    /\ summary = NoSummary
    /\ suggestions = <<>>
    /\ conf_score = 0
    /\ tone = ""
    /\ key_points = <<>>

\* The script, from the widgets' values on.
Init ==
    /\ pc = "start"
    /\ manual_text \in ManualTexts
    /\ uploaded \in BOOLEAN
    /\ round_type \in RoundTypes
    /\ user_keywords \in AppKeywordLists
    /\ max_points = 5
    /\ transcript = <<>>
    /\ duration = None
    /\ segments = <<>>
    /\ Blank

Next ==
    \/ Prompt
    \/ UsePasted
    \/ Transcribe
    \/ CountWords
    \/ FillerStats
    \/ Sentiment
    \/ KeywordCoverage
    \/ OverallScore
    \/ Summary
    \/ Suggestions
    \/ Confidence
    \/ Tone
    \/ KeyPoints
    \/ Report

Spec == Init /\ [][Next]_vars

\* The scoring functions on arbitrary (wpm, filler_total, compound).
InitScore ==
    /\ pc = "overall"
    /\ manual_text = <<>>
    /\ uploaded = FALSE
    /\ round_type = "General"
    /\ user_keywords = <<>>
    /\ max_points = 5
    /\ transcript = <<>>
    /\ duration = None
    /\ segments = <<>>
    /\ total_words = 0
    /\ wpm \in WpmSet
    /\ filler \in [total : FillerSet, by_word : {<<>>}]
    /\ compound \in CompoundSet
    /\ kwcov = NoCoverage
    /\ overall = 0
    /\ summary = NoSummary
    /\ suggestions = <<>>
    /\ conf_score = 0
    /\ tone = ""
    /\ key_points = <<>>

NextScore ==
    \/ OverallScore
    \/ Summary
    \/ Suggestions
    \/ Confidence
    \/ Tone

SpecScore == InitScore /\ [][NextScore]_vars

\* filler_stats on arbitrary text.
InitFiller ==
    /\ pc = "filler"
    /\ manual_text = <<>>
    /\ uploaded = FALSE
    /\ round_type = "General"
    /\ user_keywords = <<>>
    /\ max_points = 5
    /\ transcript \in FillerTexts
    /\ duration = None
    /\ segments = <<>>
    /\ Blank

NextFiller == FillerStats

SpecFiller == InitFiller /\ [][NextFiller]_vars

\* keyword_coverage on arbitrary keywords and text.
InitKeyword ==
    /\ pc = "keywords"
    /\ manual_text = <<>>
    /\ uploaded = FALSE
    /\ round_type = "General"
    /\ user_keywords \in KeywordLists
    /\ max_points = 5
    /\ transcript \in KeywordTexts
    /\ duration = None
    /\ segments = <<>>
    /\ Blank

NextKeyword == KeywordCoverage

SpecKeyword == InitKeyword /\ [][NextKeyword]_vars

\* extract_key_points on arbitrary text and a count max_points.
InitKeyPoints ==
    /\ pc = "key_points"
    /\ manual_text = <<>>
    /\ uploaded = FALSE
    /\ round_type = "General"
    /\ user_keywords = <<>>
    /\ max_points \in 0..MaxPoints
    /\ transcript \in KeyPointTexts
    /\ duration = None
    /\ segments = <<>>
    /\ Blank

NextKeyPoints == KeyPoints

SpecKeyPoints == InitKeyPoints /\ [][NextKeyPoints]_vars

-----------------------------------------------------------------------------
(* Properties *)

PcOrder == <<"start", "count_words", "filler", "sentiment", "keywords",
             "overall", "summary", "suggestions", "confidence", "tone",
             "key_points", "report", "done">>

PcIndex(p) == CHOOSE i \in DOMAIN PcOrder : PcOrder[i] = p

\* The statement at `stage` has run.
Past(stage) == pc # "stopped" /\ PcIndex(pc) > PcIndex(stage)

Range(seq) == {seq[i] : i \in DOMAIN seq}

Times(seq, x) == Cardinality({i \in DOMAIN seq : seq[i] = x})

clamp(x, lo, hi) == IF x < lo THEN lo ELSE IF x > hi THEN hi ELSE x

\* C1: for every wpm (negative, zero or positive), every filler_total >= 0
\* however large and every compound in [-1, 1], compute_overall_score
\* returns a value in [0, 100] (0..1000 tenths) and confidence_score an
\* integer in [0, 100].
C1_ScoresInRange ==
    /\ Past("overall") => overall \in 0..1000
    /\ Past("confidence") => conf_score \in 0..100

C1_Witness ==
    /\ Past("confidence")
    /\ wpm < 0
    /\ filler.total = BigFiller
    /\ compound = -100
    /\ overall \in 0..1000
    /\ conf_score \in 0..100

\* The pace term C2 describes, in hundredths of a point.
C2_PaceTerm ==
    IF wpm <= 0 THEN 0
    ELSE IF 1200 <= wpm /\ wpm <= 1600 THEN 2000
    ELSE max(0, 2000 - 2 * min(abs(wpm - 1400), 1000))

\* C2: compute_overall_score(wpm, 0, 0.0) never exceeds 70.0, equals 70.0
\* whenever 120 <= wpm <= 160, and is 50 plus the pace term (0 for
\* wpm <= 0, 20 in the band, max(0, 20 - min(|wpm - 140|, 100)/5) outside
\* it), rounded to one decimal.
C2_IdealBandMaximal ==
    (Past("overall") /\ filler.total = 0 /\ compound = 0) =>
        /\ overall <= 700
        /\ (1200 <= wpm /\ wpm <= 1600) => overall = 700
        /\ abs(10 * overall - (5000 + C2_PaceTerm)) <= 5

C2_Witness ==
    /\ Past("overall")
    /\ filler.total = 0
    /\ compound = 0
    /\ wpm = 1200
    /\ overall = 700

\* compound * 20 truncated toward zero: the integer t of the sign of
\* compound with |t| <= |compound * 20| < |t| + 1.
C3_Truncated ==
    CHOOSE t \in -20..20 :
        /\ compound >= 0 => t >= 0
        /\ compound <= 0 => t <= 0
        /\ 100 * abs(t) <= abs(20 * compound)
        /\ abs(20 * compound) < 100 * (abs(t) + 1)

C3_Pace == IF wpm < 1100 \/ wpm > 1800 THEN -8 ELSE 5

\* C3: confidence_score equals clamp(60 - min(20, filler_total) + T + P, 0,
\* 100), T being compound * 20 truncated toward zero and P being -8 if
\* wpm < 110 or wpm > 180 and +5 otherwise (110 and 180 themselves get +5).
C3_ConfidenceFormula ==
    Past("confidence") =>
        conf_score = clamp(60 - min(20, filler.total) + C3_Truncated + C3_Pace,
                           0, 100)

C3_Witness ==
    /\ Past("confidence")
    /\ compound = -7
    /\ wpm = 1800
    /\ filler.total = 0
    /\ conf_score = 64

\* C4: tone_label is a first-match-wins table: "Confident" iff compound >
\* 0.4 and filler_total < 10; otherwise "Nervous" iff compound < -0.2 and
\* filler_total > 10; otherwise "Uncertain" iff filler_total > 25; otherwise
\* "Neutral". compound < -0.2 with filler_total > 25 is "Nervous".
C4_ToneTable ==
    Past("tone") =>
        LET confident == compound > 40 /\ filler.total < 10
            nervous == ~confident /\ compound < -20 /\ filler.total > 10
            uncertain == ~confident /\ ~nervous /\ filler.total > 25
        IN  /\ tone \in {"Confident", "Nervous", "Uncertain", "Neutral"}
            /\ tone = "Confident" <=> confident
            /\ tone = "Nervous" <=> nervous
            /\ tone = "Uncertain" <=> uncertain
            /\ tone = "Neutral" <=> ~(confident \/ nervous \/ uncertain)
            /\ (compound < -20 /\ filler.total > 25) => tone = "Nervous"

C4_Witness ==
    /\ Past("tone")
    /\ compound < -20
    /\ filler.total > 25
    /\ tone = "Nervous"

\* The start positions of sub in s.
Matches(s, sub) ==
    {i \in 1..(Len(s) - Len(sub) + 1) : SubSeq(s, i, i + Len(sub) - 1) = sub}

\* The number of non-overlapping occurrences of sub in s: the size of a
\* largest set of occurrences no two of which share a character.
Occurrences(s, sub) ==
    LET disjoint == {P \in SUBSET Matches(s, sub) :
                        \A i, j \in P : i # j => abs(i - j) >= Len(sub)}
    IN  CHOOSE n \in 0..Len(s) :
            /\ \E P \in disjoint : Cardinality(P) = n
            /\ \A P \in disjoint : Cardinality(P) <= n

RECURSIVE SumOver(_, _)
SumOver(f, D) ==
    IF D = {} THEN 0
    ELSE LET x == CHOOSE y \in D : TRUE IN f[x] + SumOver(f, D \ {x})

\* C5: filler_stats' total is the sum of the by_word counts, by_word holds
\* exactly the filler phrases with a count > 0, and each count is the
\* phrase's number of non-overlapping occurrences in the lower-cased
\* transcript, each phrase counted on its own ("" gives 0 and no phrase,
\* "um um uh" gives 3 with um: 2 and uh: 1).
C5_FillerStats ==
    Past("filler") =>
        LET lo == lower(transcript)
        IN  /\ filler.total = SumOver(filler.by_word, DOMAIN filler.by_word)
            /\ DOMAIN filler.by_word
                   = {f \in FILLER_WORDS : Occurrences(lo, f) > 0}
            /\ \A f \in DOMAIN filler.by_word :
                   filler.by_word[f] = Occurrences(lo, f)
            /\ transcript = <<>> =>
                   filler.total = 0 /\ DOMAIN filler.by_word = {}
            /\ transcript = UmUmUh =>
                   /\ filler.total = 3
                   /\ DOMAIN filler.by_word = {<<"u","m">>, <<"u","h">>}
                   /\ filler.by_word[<<"u","m">>] = 2
                   /\ filler.by_word[<<"u","h">>] = 1

C5_Witness ==
    /\ Past("filler")
    /\ transcript = <<"h","U","h","u","h">>
    /\ filler.total = 3
    /\ filler.by_word[<<"h","u","h">>] = 1
    /\ filler.by_word[<<"u","h">>] = 2

\* The elements of seq at the positions P, in order.
RECURSIVE Pick(_, _)
Pick(seq, P) ==
    IF P = {} THEN <<>>
    ELSE LET i == CHOOSE x \in P : \A y \in P : x <= y
         IN  <<seq[i]>> \o Pick(seq, P \ {i})

\* C6: keyword_coverage partitions the input: every input keyword is in
\* exactly one of found and missing, which share no keyword; a keyword is in
\* found iff its trimmed lower-cased form is a substring of the lower-cased
\* transcript; each list keeps the input order; no keywords, two empty
\* lists.
C6_KeywordPartition ==
    Past("keywords") =>
        LET lo == lower(transcript)
            hits == {i \in DOMAIN user_keywords :
                        contains(lo, lower(strip(user_keywords[i])))}
        IN  /\ \A k \in Range(user_keywords) :
                   (k \in Range(kwcov.found)) # (k \in Range(kwcov.missing))
            /\ Range(kwcov.found) \cap Range(kwcov.missing) = {}
            /\ Range(kwcov.found) \cup Range(kwcov.missing)
                   = Range(user_keywords)
            /\ kwcov.found = Pick(user_keywords, hits)
            /\ kwcov.missing = Pick(user_keywords, DOMAIN user_keywords \ hits)
            /\ user_keywords = <<>> =>
                   kwcov.found = <<>> /\ kwcov.missing = <<>>

C6_Witness ==
    /\ Past("keywords")
    /\ transcript = <<"A">>
    /\ user_keywords = << <<"b">>, <<" ","a"," ">> >>
    /\ kwcov.found = << <<" ","a"," ">> >>
    /\ kwcov.missing = << <<"b">> >>

\* C7 as stated: for an empty transcript (word count 0, filler total 0,
\* pace 0.0) the summary is produced and uses "minimal filler usage" and
\* "well-paced".
C7_AsStated ==
    (transcript = <<>> /\ Past("summary")) =>
        /\ total_words = 0
        /\ filler.total = 0
        /\ wpm = 0
        /\ summary.filler_desc = "minimal filler usage"
        /\ summary.pace_desc = "well-paced"

\* C7, amended: for an empty transcript (word count 0, filler total 0,
\* pace 0.0) the summary is produced and uses "minimal filler usage" and
\* "slow-paced" (a pace of 0.0 is below 110).
C7_EmptyTranscript ==
    /\ (transcript = <<>> /\ pc = "summary") => ENABLED Summary
    /\ (transcript = <<>> /\ Past("summary")) =>
        /\ total_words = 0
        /\ filler.total = 0
        /\ wpm = 0
        /\ summary.filler_desc = "minimal filler usage"
        /\ summary.pace_desc = "slow-paced"

C7_Witness ==
    /\ pc = "done"
    /\ transcript = <<>>
    /\ duration = <<2>>
    /\ summary.filler_desc = "minimal filler usage"
    /\ summary.pace_desc = "slow-paced"

\* C8: improvement_suggestions returns 1 to 3 strings: at most one pace
\* suggestion (wpm > 160 or wpm < 110), then at most one filler suggestion
\* (filler_total > 15, else > 5), then at most one sentiment suggestion
\* (compound < -0.2 or compound > 0.5), in that order; the generic
\* affirmation is returned iff none of these fires, and then alone.
C8_Kind(s) ==
    CASE s \in {SlowDown, SpeakFaster} -> 1
      [] s \in {RemoveFillers, MindFillers} -> 2
      [] s \in {MorePositive, KeepTone} -> 3
      [] OTHER -> 4

C8_SuggestionsShape ==
    Past("suggestions") =>
        LET given == Range(suggestions)
            fires == \/ wpm > 1600 \/ wpm < 1100
                     \/ filler.total > 5
                     \/ compound < -20 \/ compound > 50
        IN  /\ Len(suggestions) \in 1..3
            /\ given \subseteq {SlowDown, SpeakFaster, RemoveFillers,
                                MindFillers, MorePositive, KeepTone, Generic}
            /\ \A i, j \in DOMAIN suggestions :
                   i < j => C8_Kind(suggestions[i]) < C8_Kind(suggestions[j])
            /\ SlowDown \in given <=> wpm > 1600
            /\ SpeakFaster \in given <=> wpm < 1100
            /\ RemoveFillers \in given <=> filler.total > 15
            /\ MindFillers \in given <=> (filler.total > 5 /\ filler.total <= 15)
            /\ MorePositive \in given <=> compound < -20
            /\ KeepTone \in given <=> compound > 50
            /\ Generic \in given <=> ~fires
            /\ Generic \in given => suggestions = <<Generic>>

C8_Witness ==
    /\ Past("suggestions")
    /\ wpm > 1600
    /\ filler.total > 15
    /\ compound > 50
    /\ suggestions = <<SlowDown, RemoveFillers, KeepTone>>

\* The sentences extract_key_points scores.
C9_Sentences ==
    LET parts == split_sentences(strip(transcript))
        clean == [i \in DOMAIN parts |-> strip(parts[i])]
        nonempty(s) == s # <<>>
    IN  SelectSeq(clean, nonempty)

RECURSIVE C9_SumCounts(_, _)
C9_SumCounts(s, K) ==
    IF K = {} THEN 0
    ELSE LET k == CHOOSE x \in K : TRUE
         IN  Cardinality(Matches(lower(s), KEY_WORDS[k])) + C9_SumCounts(s, K \ {k})

\* A sentence's score: its word count plus 5 for each occurrence of a
\* keyword (per_occurrence), or plus 5 for each keyword that occurs.
C9_Score(s, per_occurrence) ==
    IF per_occurrence
    THEN Len(split(s)) + 5 * C9_SumCounts(s, DOMAIN KEY_WORDS)
    ELSE Len(split(s))
         + 5 * Cardinality({k \in DOMAIN KEY_WORDS :
                                Matches(lower(s), KEY_WORDS[k]) # {}})

\* key_points holds sentences of the transcript, in descending order of
\* score, and no sentence left out scores higher than one returned.
C9_Ranked(per_occurrence) ==
    LET all == C9_Sentences
        score(s) == C9_Score(s, per_occurrence)
    IN  /\ \A t \in Range(key_points) : Times(key_points, t) <= Times(all, t)
        /\ \A i, j \in DOMAIN key_points :
               i < j => score(key_points[i]) >= score(key_points[j])
        /\ \A t \in Range(all) :
               Times(key_points, t) < Times(all, t) =>
                   \A i \in DOMAIN key_points : score(key_points[i]) >= score(t)

\* C9 as stated: at most max_points sentences, in descending score order,
\* none left out scoring higher than one returned, the score being the word
\* count plus 5 for each occurrence of any of the nine keywords; an empty or
\* whitespace-only transcript gives the empty list.
C9_AsStated ==
    Past("key_points") =>
        /\ Len(key_points) <= max_points
        /\ C9_Ranked(TRUE)
        /\ strip(transcript) = <<>> => key_points = <<>>

\* C9, amended: for max_points >= 0, at most max_points sentences, in
\* descending score order, none left out scoring higher than one returned,
\* the score being the word count plus 5 for each of the nine keywords that
\* occurs in the sentence (case-insensitive substring), however often; an
\* empty or whitespace-only transcript gives the empty list.
C9_KeyPoints ==
    Past("key_points") =>
        /\ max_points >= 0 => Len(key_points) <= max_points
        /\ C9_Ranked(FALSE)
        /\ strip(transcript) = <<>> => key_points = <<>>

C9_Witness ==
    /\ Past("key_points")
    /\ transcript = <<"L","e","d"," ","x","."," ","L","e","d","L","e","d">>
    /\ max_points = 1
    /\ key_points = << <<"L","e","d"," ","x",".">> >>

\* C10: whenever a pasted transcript is used (duration is None and segments
\* is empty), wpm is 0.0 whatever the word count, the summary's pace
\* descriptor is "slow-paced", the first suggestion is the speak-faster
\* advice and the generic affirmation is never returned.
C10_PastedAlwaysSlow ==
    (pc \notin {"start", "stopped"} /\ duration = None /\ segments = <<>>) =>
        /\ Past("count_words") => wpm = 0
        /\ Past("summary") => summary.pace_desc = "slow-paced"
        /\ Past("suggestions") =>
               /\ suggestions[1] = SpeakFaster
               /\ Generic \notin Range(suggestions)

C10_Witness ==
    /\ pc = "done"
    /\ duration = None
    /\ segments = <<>>
    /\ total_words = 2
    /\ wpm = 0
    /\ summary.pace_desc = "slow-paced"
    /\ suggestions = <<SpeakFaster>>

=============================================================================
